---------------------------- MODULE Spec2Model ----------------------------
(***************************************************************************)
(* Interpretability-metric pipeline of PredictDiabetesDecisionTree.py and  *)
(* PredictDiabetesRandomForest.py (the two scripts share the metric code   *)
(* line for line; line numbers below are those of the decision-tree        *)
(* script).                                                                *)
(*                                                                         *)
(* Numbers.  Python floats are modelled in fixed point: a score s is the   *)
(* integer s * Scale, rounded towards minus infinity by the one division   *)
(* each formula makes.  LIME weights and SHAP values are small integers.   *)
(* Strings are sequences of one-character strings, so that Python's        *)
(* substring test `f in feat` is computed, not assumed.                    *)
(***************************************************************************)
EXTENDS Integers, Sequences, FiniteSets, TLC

VARIABLES
    pc,                          \* position in the script / in the call
    feature_names,               \* X.columns
    total_features,              \* X.shape[1]
    shap_values,                 \* shap_values[i].values for i = 0, 1
    shap_vec_1, shap_vec_2,
    exp1, exp2,                  \* LIME explanations: as_list() and local_pred[0]
    lime_vec_1, lime_vec_2,
    shap_explained_features, lime_explained_features,
    shap_sparsity, lime_sparsity,
    shap_stability, lime_stability,
    model_preds, lime_preds,
    shap_fidelity_score, lime_fidelity_score,
    shap_interpretability_score, lime_interpretability_score,
    conclusion,
    printed,                     \* lines written by the print block
    X_train, X_test,             \* row identities of the two halves of the split
    feature, i,                  \* the dependence loop's two loop variables
    lime_contributions, shap_contributions, feature_values,
    origin                       \* the data rows each quantity describes

vars == << pc, feature_names, total_features, shap_values, shap_vec_1, shap_vec_2,
           exp1, exp2, lime_vec_1, lime_vec_2,
           shap_explained_features, lime_explained_features,
           shap_sparsity, lime_sparsity, shap_stability, lime_stability,
           model_preds, lime_preds, shap_fidelity_score, lime_fidelity_score,
           shap_interpretability_score, lime_interpretability_score,
           conclusion, printed, X_train, X_test, feature, i,
           lime_contributions, shap_contributions, feature_values, origin >>

-----------------------------------------------------------------------------
(* Bounds of the model *)

\* fixed-point resolution of a score
Scale == 100
\* longest feature-name sequence handed to explanation_to_vector, and longest
\* vector handed to the stability lines
MaxFeatures == 2
\* most features of a SHAP value array handed to get_shap_vector
MaxShapFeatures == 3
\* largest total_features handed to calculate_sparsity_score
MaxTotal == 3
\* longest explanation list handed to explanation_to_vector
MaxExp == 2
\* largest absolute entry of a vector handed to the stability lines
MaxWeight == 2
\* instances the dependence loop visits (range(100) in the script)
LoopInstances == 2
\* training rows beyond those the dependence loop reads
ExtraRows == 1

-----------------------------------------------------------------------------
(* Arithmetic *)

Abs(x) == IF x < 0 THEN -x ELSE x

Min(a, b) == IF a < b THEN a ELSE b

RECURSIVE SumSeq(_)
SumSeq(s) == IF s = << >> THEN 0 ELSE Head(s) + SumSeq(Tail(s))

\* floor of the square root, by bisection on [lo, hi]
RECURSIVE ISqrtIn(_, _, _)
ISqrtIn(n, lo, hi) ==
    IF lo >= hi THEN lo
    ELSE LET mid == (lo + hi + 1) \div 2
         IN  IF mid * mid <= n THEN ISqrtIn(n, mid, hi) ELSE ISqrtIn(n, lo, mid - 1)

ISqrt(n) == ISqrtIn(n, 0, Min(n, 40000))

-----------------------------------------------------------------------------
(* Strings: a Python str is the sequence of its characters *)

\* Python's `sub in s` for two strings
Contains(sub, s) ==
    \E k \in 0..(Len(s) - Len(sub)) : SubSeq(s, k + 1, k + Len(sub)) = sub

\* list.index(x): position (from 1 here) of the first element equal to x
ListIndex(seq, x) ==
    CHOOSE k \in 1..Len(seq) : seq[k] = x /\ \A j \in 1..(k - 1) : seq[j] # x

-----------------------------------------------------------------------------
(* numpy arrays: ndim, shape and the elements (rows of elements when 2-D) *)

Array1(elems) == [ndim |-> 1, shape |-> << Len(elems) >>, data |-> elems]

Array2(rows, ncols) == [ndim |-> 2, shape |-> << Len(rows), ncols >>, data |-> rows]

\* np.zeros(n)
Zeros(n) == Array1([k \in 1..n |-> 0])

RECURSIVE Concat(_)
Concat(rows) == IF rows = << >> THEN << >> ELSE Head(rows) \o Concat(Tail(rows))

\* a.reshape(1, -1)[0]: every element of a, row by row, as the one row
Reshape(a) == IF a.ndim = 2 THEN Concat(a.data) ELSE a.data

-----------------------------------------------------------------------------
(* The three functions the scripts define *)

\* the value of vec after the loop body has run for entries k..Len(as_list)
RECURSIVE ExplanationLoop(_, _, _, _)
ExplanationLoop(as_list, names, k, vec) ==
    IF k > Len(as_list) THEN vec
    ELSE LET feat    == as_list[k][1]
             weight  == as_list[k][2]
             matched == SelectSeq(names, LAMBDA f : Contains(f, feat))
         IN  IF matched # << >>
             THEN LET idx == ListIndex(names, matched[1])
                  IN  ExplanationLoop(as_list, names, k + 1,
                                      [vec EXCEPT ![idx] = Abs(weight)])
             ELSE ExplanationLoop(as_list, names, k + 1, vec)

\* the loop body without abs()
RECURSIVE ExplanationLoopSigned(_, _, _, _)
ExplanationLoopSigned(as_list, names, k, vec) ==
    IF k > Len(as_list) THEN vec
    ELSE LET feat    == as_list[k][1]
             weight  == as_list[k][2]
             matched == SelectSeq(names, LAMBDA f : Contains(f, feat))
         IN  IF matched # << >>
             THEN LET idx == ListIndex(names, matched[1])
                  IN  ExplanationLoopSigned(as_list, names, k + 1,
                                            [vec EXCEPT ![idx] = weight])
             ELSE ExplanationLoopSigned(as_list, names, k + 1, vec)

explanation_to_vector_signed(explanation, names) ==
    Array1(ExplanationLoopSigned(explanation.as_list, names, 1, Zeros(Len(names)).data))

\* the loop writing every matched feature of a token, not only matched[0]
RECURSIVE ExplanationLoopAll(_, _, _, _)
ExplanationLoopAll(as_list, names, k, vec) ==
    IF k > Len(as_list) THEN vec
    ELSE LET feat   == as_list[k][1]
             weight == as_list[k][2]
         IN  ExplanationLoopAll(as_list, names, k + 1,
                 [j \in 1..Len(names) |->
                     IF Contains(names[j], feat) THEN Abs(weight) ELSE vec[j]])

explanation_to_vector_all(explanation, names) ==
    Array1(ExplanationLoopAll(explanation.as_list, names, 1, Zeros(Len(names)).data))

explanation_to_vector(explanation, names) ==
    Array1(ExplanationLoop(explanation.as_list, names, 1, Zeros(Len(names)).data))

\* used / total
calculate_sparsity_score_density(explanation_features, total) ==
    (Len(explanation_features) * Scale) \div total

calculate_sparsity_score(explanation_features, total) ==
    Scale - (Len(explanation_features) * Scale) \div total

\* get_shap_vector(shap_values, i); i counts from 0 as in the script
get_shap_vector(values, inst) ==
    LET vals == values[inst + 1]
    IN  IF vals.ndim = 2 /\ vals.shape[1] = 2
        THEN Array1(vals.data[2])
        ELSE vals

-----------------------------------------------------------------------------
(* The script's inline computations *)

Dot(x, y) == SumSeq([k \in 1..Len(x) |-> x[k] * y[k]])

Sign(x) == IF x > 0 THEN 1 ELSE IF x < 0 THEN -1 ELSE 0

\* sklearn's normalize() divides a row by its norm, and by 1 when the norm is 0
NormSquared(x) == LET n == Dot(x, x) IN IF n = 0 THEN 1 ELSE n

\* cosine_similarity(x.reshape(1, -1), y.reshape(1, -1))[0][0] with plain norms
cosine_similarity_plain(x, y) ==
    IF Dot(x, x) = 0 \/ Dot(y, y) = 0 THEN Scale
    ELSE Sign(Dot(x, y))
           * ISqrt((Dot(x, y) * Dot(x, y) * Scale * Scale) \div (Dot(x, x) * Dot(y, y)))

\* cosine_similarity(x.reshape(1, -1), y.reshape(1, -1))[0][0]
cosine_similarity(x, y) ==
    Sign(Dot(x, y))
      * ISqrt((Dot(x, y) * Dot(x, y) * Scale * Scale) \div (NormSquared(x) * NormSquared(y)))

stability(vec_a, vec_b) == cosine_similarity(Reshape(vec_a), Reshape(vec_b))

\* the mean of the absolute, not the squared, differences
mean_squared_error_abs(y_true, y_pred) ==
    SumSeq([k \in 1..Len(y_true) |-> Abs(y_true[k] - y_pred[k])]) \div Len(y_true)

\* mean_squared_error(y_true, y_pred), the values and the result in units of 1/Scale
mean_squared_error(y_true, y_pred) ==
    SumSeq([k \in 1..Len(y_true) |-> (y_true[k] - y_pred[k]) * (y_true[k] - y_pred[k])])
        \div (Len(y_true) * Scale)

fidelity(y_true, y_pred) == Scale - mean_squared_error(y_true, y_pred)

\* w1, w2, w3 = 0.3, 0.3, 0.4 in tenths
w1 == 3
w2 == 3
w3 == 4

\* the weights in another order
interpretability_score_reweighted(sparsity, stab, fid) ==
    w3 * sparsity + w2 * stab + w1 * fid

\* w1 * sparsity + w2 * stability + w3 * fidelity, in units of 1/(10 * Scale)
interpretability_score(sparsity, stab, fid) ==
    w1 * sparsity + w2 * stab + w3 * fid

MoreInterpretable == "SHAP is more interpretable than LIME (Reject H0, Accept H1)"

NotMoreInterpretable == "SHAP is not more interpretable than LIME (Fail to reject H0)"

\* the comparison as >=
conclusion_of_ge(shap_score, lime_score) ==
    IF shap_score >= lime_score THEN MoreInterpretable ELSE NotMoreInterpretable

conclusion_of(shap_score, lime_score) ==
    IF shap_score > lime_score THEN MoreInterpretable ELSE NotMoreInterpretable

\* position (from 1) at which element k of keys stands once keys is sorted:
\* behind every smaller key and every equal key that precedes it
Rank(keys, k) ==
    1 + Cardinality({ j \in 1..Len(keys) :
                        keys[j] < keys[k] \/ (keys[j] = keys[k] /\ j < k) })

\* np.argsort(keys) for the short arrays of the script (numpy sorts fewer than
\* 17 elements by insertion, which keeps equal keys in their order)
Argsort(keys) ==
    [r \in 1..Len(keys) |-> CHOOSE k \in 1..Len(keys) : Rank(keys, k) = r]

\* seq[-n:]
LastN(seq, n) == SubSeq(seq, Len(seq) - Min(n, Len(seq)) + 1, Len(seq))

\* the [-5:] of line 165 and num_features_lime
TopK == 5
num_features_lime == 5

AbsSeq(x) == [k \in 1..Len(x) |-> Abs(x[k])]

\* feat.split(' ')[0]
RECURSIVE SplitFirst(_)
SplitFirst(s) ==
    IF s = << >> \/ Head(s) = " " THEN << >> ELSE << Head(s) >> \o SplitFirst(Tail(s))

-----------------------------------------------------------------------------
(* Values of the external collaborators: data set, SHAP and LIME explainers *)

\* stand-ins for the data set's column names (Glucose, BMI, Age, ...)
Columns == << << "G" >>, << "B" >>, << "A" >> >>

\* the feature columns of a data set: a non-empty prefix of Columns
ColumnSets == { SubSeq(Columns, 1, n) : n \in 1..Len(Columns) }

\* a LIME explanation object: as_list() and local_pred[0]
Explanation(pairs, pred) == [as_list |-> pairs, local_pred |-> pred]

NoExplanation == Explanation(<< >>, 0)

\* a probability, in units of 1/Scale
Probabilities == { 0, Scale }

\* the token LIME writes for a discretised feature: "<name> >"
LimeToken(name) == name \o << " ", ">" >>

\* what explain_instance(..., num_features = n) may return over the columns
\* `names`: no entry or one entry, the entry's token naming one column
LimeExplanations(names, n) ==
    { Explanation(pairs, pred) :
        pairs \in { << >> } \cup
                  { << << LimeToken(names[f]), w >> >> : f \in 1..Min(Len(names), n), w \in {-1, 1} },
        pred \in Probabilities }

\* shap_values[k].values of one instance of a two-class model over n features:
\* n rows (features) by 2 columns (classes), the classes' values opposite
ShapInstances(n) ==
    { Array2([f \in 1..n |-> << -c[f], c[f] >>], 2) : c \in [1..n -> {0, 1}] }

-----------------------------------------------------------------------------
(* The metric block of the script, lines 152-200, statement by statement *)

metricVars == << shap_vec_1, shap_vec_2, exp1, exp2, lime_vec_1, lime_vec_2,
                 shap_explained_features, lime_explained_features,
                 shap_sparsity, lime_sparsity, shap_stability, lime_stability,
                 model_preds, lime_preds, shap_fidelity_score, lime_fidelity_score,
                 shap_interpretability_score, lime_interpretability_score,
                 conclusion, printed >>

depVars == << X_train, X_test, feature, i,
              lime_contributions, shap_contributions, feature_values, origin >>

\* the rows described by: shap_values (row by row), the two SHAP vectors, the two
\* LIME explanations, the two model probabilities
NoOrigin == [q \in { "shap_values", "shap_vec", "exp", "model_preds" } |-> << >>]

\* the values every variable has before the statement that assigns it has run
Unassigned ==
    /\ shap_values = << >>
    /\ shap_vec_1 = Zeros(0) /\ shap_vec_2 = Zeros(0)
    /\ exp1 = NoExplanation /\ exp2 = NoExplanation
    /\ lime_vec_1 = Zeros(0) /\ lime_vec_2 = Zeros(0)
    /\ shap_explained_features = << >> /\ lime_explained_features = << >>
    /\ shap_sparsity = 0 /\ lime_sparsity = 0
    /\ shap_stability = 0 /\ lime_stability = 0
    /\ model_preds = << >> /\ lime_preds = << >>
    /\ shap_fidelity_score = 0 /\ lime_fidelity_score = 0
    /\ shap_interpretability_score = 0 /\ lime_interpretability_score = 0
    /\ conclusion = "" /\ printed = << >>
    /\ X_train = << >> /\ X_test = << >>
    /\ feature = << >> /\ i = 0
    /\ lime_contributions = << >> /\ shap_contributions = << >>
    /\ feature_values = << >>
    /\ origin = NoOrigin

Init ==
    /\ pc = "explain_shap"
    /\ feature_names \in ColumnSets
    /\ total_features = Len(feature_names)
    /\ Unassigned

\* lines 66-67: shap_values = explainer_shap(X_train); instances 0 and 1 are read
ExplainShap ==
    /\ pc = "explain_shap"
    /\ \E a, b \in ShapInstances(total_features) : shap_values' = << a, b >>
    /\ pc' = "shap_vectors"
    /\ UNCHANGED << feature_names, total_features, metricVars, depVars >>

\* lines 152-153
ShapVectors ==
    /\ pc = "shap_vectors"
    /\ shap_vec_1' = get_shap_vector(shap_values, 0)
    /\ shap_vec_2' = get_shap_vector(shap_values, 1)
    /\ pc' = "lime_explain"
    /\ UNCHANGED << feature_names, total_features, shap_values, exp1, exp2,
                    lime_vec_1, lime_vec_2,
                    shap_explained_features, lime_explained_features,
                    shap_sparsity, lime_sparsity, shap_stability, lime_stability,
                    model_preds, lime_preds, shap_fidelity_score, lime_fidelity_score,
                    shap_interpretability_score, lime_interpretability_score,
                    conclusion, printed, depVars >>

\* lines 156-159
LimeExplain ==
    /\ pc = "lime_explain"
    /\ exp1' \in LimeExplanations(feature_names, num_features_lime)
    /\ exp2' \in LimeExplanations(feature_names, num_features_lime)
    /\ pc' = "lime_vectors"
    /\ UNCHANGED << feature_names, total_features, shap_values, shap_vec_1, shap_vec_2,
                    lime_vec_1, lime_vec_2,
                    shap_explained_features, lime_explained_features,
                    shap_sparsity, lime_sparsity, shap_stability, lime_stability,
                    model_preds, lime_preds, shap_fidelity_score, lime_fidelity_score,
                    shap_interpretability_score, lime_interpretability_score,
                    conclusion, printed, depVars >>

\* lines 161-162
LimeVectors ==
    /\ pc = "lime_vectors"
    /\ lime_vec_1' = explanation_to_vector(exp1, feature_names)
    /\ lime_vec_2' = explanation_to_vector(exp2, feature_names)
    /\ pc' = "explained_features"
    /\ UNCHANGED << feature_names, total_features, shap_values, shap_vec_1, shap_vec_2,
                    exp1, exp2,
                    shap_explained_features, lime_explained_features,
                    shap_sparsity, lime_sparsity, shap_stability, lime_stability,
                    model_preds, lime_preds, shap_fidelity_score, lime_fidelity_score,
                    shap_interpretability_score, lime_interpretability_score,
                    conclusion, printed, depVars >>

\* [X.columns[k] for k in np.argsort(np.abs(vec))[-5:]]: for a 1-D vec one column
\* name per kept position; for a 2-D vec argsort sorts each row, and each kept
\* row of positions selects that many column names
ShapExplainedFeatures(vec, names) ==
    IF vec.ndim = 1
    THEN LET kept == LastN(Argsort(AbsSeq(vec.data)), TopK)
         IN  [k \in 1..Len(kept) |-> names[kept[k]]]
    ELSE LET rows == LastN(vec.data, TopK)
         IN  [k \in 1..Len(rows) |->
                 LET q == Argsort(AbsSeq(rows[k]))
                 IN  [c \in 1..Len(q) |-> names[q[c]]]]

\* X.columns[k] raises IndexError when a position of a row exceeds the columns
ShapExplainedRaises(vec, names) == vec.ndim = 2 /\ vec.shape[2] > Len(names)

\* lines 165-167
ExplainedFeatures ==
    /\ pc = "explained_features"
    /\ IF ShapExplainedRaises(shap_vec_1, feature_names)
       THEN /\ pc' = "failed"
            /\ UNCHANGED << shap_explained_features, lime_explained_features >>
       ELSE /\ shap_explained_features' = ShapExplainedFeatures(shap_vec_1, feature_names)
            /\ lime_explained_features' =
                  [k \in 1..Len(exp1.as_list) |-> SplitFirst(exp1.as_list[k][1])]
            /\ pc' = "sparsity"
    /\ UNCHANGED << feature_names, total_features, shap_values, shap_vec_1, shap_vec_2,
                    exp1, exp2, lime_vec_1, lime_vec_2,
                    shap_sparsity, lime_sparsity, shap_stability, lime_stability,
                    model_preds, lime_preds, shap_fidelity_score, lime_fidelity_score,
                    shap_interpretability_score, lime_interpretability_score,
                    conclusion, printed, depVars >>

\* lines 170-171
Sparsity ==
    /\ pc = "sparsity"
    /\ shap_sparsity' = calculate_sparsity_score(shap_explained_features, total_features)
    /\ lime_sparsity' = calculate_sparsity_score(lime_explained_features, total_features)
    /\ pc' = "stability"
    /\ UNCHANGED << feature_names, total_features, shap_values, shap_vec_1, shap_vec_2,
                    exp1, exp2, lime_vec_1, lime_vec_2,
                    shap_explained_features, lime_explained_features,
                    shap_stability, lime_stability,
                    model_preds, lime_preds, shap_fidelity_score, lime_fidelity_score,
                    shap_interpretability_score, lime_interpretability_score,
                    conclusion, printed, depVars >>

\* lines 174-175
Stability ==
    /\ pc = "stability"
    /\ shap_stability' = stability(shap_vec_1, shap_vec_2)
    /\ lime_stability' = stability(lime_vec_1, lime_vec_2)
    /\ pc' = "fidelity"
    /\ UNCHANGED << feature_names, total_features, shap_values, shap_vec_1, shap_vec_2,
                    exp1, exp2, lime_vec_1, lime_vec_2,
                    shap_explained_features, lime_explained_features,
                    shap_sparsity, lime_sparsity,
                    model_preds, lime_preds, shap_fidelity_score, lime_fidelity_score,
                    shap_interpretability_score, lime_interpretability_score,
                    conclusion, printed, depVars >>

\* lines 178-181; model.predict_proba(X_test.iloc[:2])[:, 1] is any two probabilities
Fidelity ==
    /\ pc = "fidelity"
    /\ \E p1, p2 \in Probabilities :
         /\ model_preds' = << p1, p2 >>
         /\ lime_preds' = << exp1.local_pred, exp2.local_pred >>
         /\ shap_fidelity_score' = fidelity(<< p1, p2 >>, << p1, p2 >>)
         /\ lime_fidelity_score' =
               fidelity(<< p1, p2 >>, << exp1.local_pred, exp2.local_pred >>)
    /\ pc' = "composite"
    /\ UNCHANGED << feature_names, total_features, shap_values, shap_vec_1, shap_vec_2,
                    exp1, exp2, lime_vec_1, lime_vec_2,
                    shap_explained_features, lime_explained_features,
                    shap_sparsity, lime_sparsity, shap_stability, lime_stability,
                    shap_interpretability_score, lime_interpretability_score,
                    conclusion, printed, depVars >>

\* lines 184-186
Composite ==
    /\ pc = "composite"
    /\ shap_interpretability_score' =
          interpretability_score(shap_sparsity, shap_stability, shap_fidelity_score)
    /\ lime_interpretability_score' =
          interpretability_score(lime_sparsity, lime_stability, lime_fidelity_score)
    /\ pc' = "conclusion"
    /\ UNCHANGED << feature_names, total_features, shap_values, shap_vec_1, shap_vec_2,
                    exp1, exp2, lime_vec_1, lime_vec_2,
                    shap_explained_features, lime_explained_features,
                    shap_sparsity, lime_sparsity, shap_stability, lime_stability,
                    model_preds, lime_preds, shap_fidelity_score, lime_fidelity_score,
                    conclusion, printed, depVars >>

\* line 189
Conclusion ==
    /\ pc = "conclusion"
    /\ conclusion' = conclusion_of(shap_interpretability_score, lime_interpretability_score)
    /\ pc' = "print"
    /\ UNCHANGED << feature_names, total_features, shap_values, shap_vec_1, shap_vec_2,
                    exp1, exp2, lime_vec_1, lime_vec_2,
                    shap_explained_features, lime_explained_features,
                    shap_sparsity, lime_sparsity, shap_stability, lime_stability,
                    model_preds, lime_preds, shap_fidelity_score, lime_fidelity_score,
                    shap_interpretability_score, lime_interpretability_score,
                    printed, depVars >>

\* lines 192-200: one pair (label, value) per print call
PrintReport ==
    /\ pc = "print"
    /\ printed' = << << "SHAP Sparsity Score", shap_sparsity >>,
                     << "LIME Sparsity Score", lime_sparsity >>,
                     << "SHAP Stability Score", shap_stability >>,
                     << "LIME Stability Score", lime_stability >>,
                     << "SHAP Fidelity Score", shap_fidelity_score >>,
                     << "LIME Fidelity Score", lime_fidelity_score >>,
                     << "SHAP Interpretability Score (e1)", shap_interpretability_score >>,
                     << "LIME Interpretability Score (e2)", lime_interpretability_score >>,
                     << "Conclusion:", conclusion >> >>
    /\ pc' = "done"
    /\ UNCHANGED << feature_names, total_features, shap_values, shap_vec_1, shap_vec_2,
                    exp1, exp2, lime_vec_1, lime_vec_2,
                    shap_explained_features, lime_explained_features,
                    shap_sparsity, lime_sparsity, shap_stability, lime_stability,
                    model_preds, lime_preds, shap_fidelity_score, lime_fidelity_score,
                    shap_interpretability_score, lime_interpretability_score,
                    conclusion, depVars >>

Next ==
    \/ ExplainShap
    \/ ShapVectors
    \/ LimeExplain
    \/ LimeVectors
    \/ ExplainedFeatures
    \/ Sparsity
    \/ Stability
    \/ Fidelity
    \/ Composite
    \/ Conclusion
    \/ PrintReport

Spec == Init /\ [][Next]_vars

-----------------------------------------------------------------------------
(* Each function and each scoring statement on its own, over all small inputs: *)
(* pc = "call_f" with the arguments in the script's variables, then            *)
(* pc = "returned_f" with the result in the variable the script assigns.       *)

\* feature names, one of them containing the other two
Names == { << "G" >>, << "B" >>, << "G", "B" >> }

FeatureSeqs == UNION { [1..n -> Names] : n \in 1..MaxFeatures }

\* a token: a feature name or nothing, then a comparison or nothing
Tokens == { n \o c : n \in Names \cup { << >> }, c \in { << >>, << ">" >> } } \ { << >> }

Weights == { -2, 0, 1 }

AsLists == UNION { [1..n -> Tokens \X Weights] : n \in 0..MaxExp }

\* shap_values[k].values of one instance: n features by 2 classes
ShapArrays(n) == { Array2(rows, 2) : rows \in [1..n -> [1..2 -> {-1, 0, 1}]] }

ZeroShapArray(n) == Array2([f \in 1..n |-> << 0, 0 >>], 2)

Vectors(n) == { Array1(v) : v \in [1..n -> (-MaxWeight)..MaxWeight] }

\* probabilities of the model, and predictions of the unclipped linear surrogate
ModelProbabilities == { 0, Scale \div 2, Scale }
SurrogatePredictions == ModelProbabilities \cup { -(Scale \div 2), Scale + Scale \div 2 }

SparsityValues == { 0, Scale \div 3, Scale }
StabilityValues == { -Scale, 0, Scale }
FidelityValues == { 0, Scale \div 2, Scale }

\* composite scores 0.0, 0.1, ..., 1.0 in units of 1/(10 * Scale)
CompositeValues == { k * Scale : k \in 0..10 }

Calls == { "explanation_to_vector", "get_shap_vector", "calculate_sparsity_score",
           "stability", "fidelity", "composite", "conclusion" }

\* the values S when the call is f, the one value d otherwise
Arg(f, S, d) == IF pc = "call_" \o f THEN S ELSE { d }

InitFn ==
    /\ pc \in { "call_" \o f : f \in Calls }
    /\ feature_names \in Arg("explanation_to_vector", FeatureSeqs, << >>)
    /\ total_features \in
          IF pc = "call_explanation_to_vector" THEN { Len(feature_names) }
          ELSE IF pc = "call_get_shap_vector" THEN 1..MaxShapFeatures
          ELSE IF pc = "call_calculate_sparsity_score" THEN 1..MaxTotal
          ELSE { 0 }
    /\ i \in Arg("get_shap_vector", 0..1, 0)
    /\ shap_values \in
          Arg("get_shap_vector",
              { IF i = 0 THEN << a, ZeroShapArray(total_features) >>
                         ELSE << ZeroShapArray(total_features), a >> :
                  a \in ShapArrays(total_features) },
              << >>)
    /\ exp1 \in Arg("explanation_to_vector",
                    { Explanation(pairs, 0) : pairs \in AsLists }, NoExplanation)
    /\ lime_explained_features \in
          Arg("calculate_sparsity_score",
              { [k \in 1..used |-> << "G" >>] : used \in 0..(MaxTotal + 1) }, << >>)
    /\ shap_vec_1 \in Arg("stability", UNION { Vectors(n) : n \in 1..MaxFeatures }, Zeros(0))
    /\ shap_vec_2 \in Arg("stability", Vectors(shap_vec_1.shape[1]), Zeros(0))
    /\ model_preds \in Arg("fidelity", ModelProbabilities \X ModelProbabilities, << >>)
    /\ lime_preds \in Arg("fidelity", SurrogatePredictions \X SurrogatePredictions, << >>)
    /\ shap_sparsity \in Arg("composite", SparsityValues, 0)
    /\ shap_stability \in Arg("composite", StabilityValues, 0)
    /\ shap_fidelity_score \in Arg("composite", FidelityValues, 0)
    /\ lime_sparsity \in Arg("composite", SparsityValues, 0)
    /\ lime_stability \in Arg("composite", StabilityValues, 0)
    /\ lime_fidelity_score \in Arg("composite", FidelityValues, 0)
    /\ shap_interpretability_score \in Arg("conclusion", CompositeValues, 0)
    /\ lime_interpretability_score \in Arg("conclusion", CompositeValues, 0)
    /\ exp2 = NoExplanation
    /\ lime_vec_1 = Zeros(0)
    /\ lime_vec_2 = Zeros(0)
    /\ shap_explained_features = << >>
    /\ conclusion = ""
    /\ printed = << >>
    /\ X_train = << >>
    /\ X_test = << >>
    /\ feature = << >>
    /\ lime_contributions = << >>
    /\ shap_contributions = << >>
    /\ feature_values = << >>
    /\ origin = NoOrigin

\* lines 134-141
CallExplanationToVector ==
    /\ pc = "call_explanation_to_vector"
    /\ lime_vec_1' = explanation_to_vector(exp1, feature_names)
    /\ pc' = "returned_explanation_to_vector"
    /\ UNCHANGED << feature_names, total_features, shap_values, shap_vec_1, shap_vec_2,
                    exp1, exp2, lime_vec_2, shap_explained_features,
                    lime_explained_features, shap_sparsity, lime_sparsity,
                    shap_stability, lime_stability, model_preds, lime_preds,
                    shap_fidelity_score, lime_fidelity_score,
                    shap_interpretability_score, lime_interpretability_score,
                    conclusion, printed, X_train, X_test, feature, i,
                    lime_contributions, shap_contributions, feature_values, origin >>

\* lines 146-150
CallGetShapVector ==
    /\ pc = "call_get_shap_vector"
    /\ shap_vec_1' = get_shap_vector(shap_values, i)
    /\ pc' = "returned_get_shap_vector"
    /\ UNCHANGED << feature_names, total_features, shap_values, shap_vec_2, exp1, exp2,
                    lime_vec_1, lime_vec_2, shap_explained_features,
                    lime_explained_features, shap_sparsity, lime_sparsity,
                    shap_stability, lime_stability, model_preds, lime_preds,
                    shap_fidelity_score, lime_fidelity_score,
                    shap_interpretability_score, lime_interpretability_score,
                    conclusion, printed, X_train, X_test, feature, i,
                    lime_contributions, shap_contributions, feature_values, origin >>

\* lines 143-144
CallCalculateSparsityScore ==
    /\ pc = "call_calculate_sparsity_score"
    /\ lime_sparsity' = calculate_sparsity_score(lime_explained_features, total_features)
    /\ pc' = "returned_calculate_sparsity_score"
    /\ UNCHANGED << feature_names, total_features, shap_values, shap_vec_1, shap_vec_2,
                    exp1, exp2, lime_vec_1, lime_vec_2, shap_explained_features,
                    lime_explained_features, shap_sparsity, shap_stability,
                    lime_stability, model_preds, lime_preds, shap_fidelity_score,
                    lime_fidelity_score, shap_interpretability_score,
                    lime_interpretability_score, conclusion, printed, X_train, X_test,
                    feature, i, lime_contributions, shap_contributions,
                    feature_values, origin >>

\* line 174
CallStability ==
    /\ pc = "call_stability"
    /\ shap_stability' = stability(shap_vec_1, shap_vec_2)
    /\ pc' = "returned_stability"
    /\ UNCHANGED << feature_names, total_features, shap_values, shap_vec_1, shap_vec_2,
                    exp1, exp2, lime_vec_1, lime_vec_2, shap_explained_features,
                    lime_explained_features, shap_sparsity, lime_sparsity,
                    lime_stability, model_preds, lime_preds, shap_fidelity_score,
                    lime_fidelity_score, shap_interpretability_score,
                    lime_interpretability_score, conclusion, printed, X_train, X_test,
                    feature, i, lime_contributions, shap_contributions,
                    feature_values, origin >>

\* lines 180-181
CallFidelity ==
    /\ pc = "call_fidelity"
    /\ shap_fidelity_score' = fidelity(model_preds, model_preds)
    /\ lime_fidelity_score' = fidelity(model_preds, lime_preds)
    /\ pc' = "returned_fidelity"
    /\ UNCHANGED << feature_names, total_features, shap_values, shap_vec_1, shap_vec_2,
                    exp1, exp2, lime_vec_1, lime_vec_2, shap_explained_features,
                    lime_explained_features, shap_sparsity, lime_sparsity,
                    shap_stability, lime_stability, model_preds, lime_preds,
                    shap_interpretability_score, lime_interpretability_score,
                    conclusion, printed, X_train, X_test, feature, i,
                    lime_contributions, shap_contributions, feature_values, origin >>

\* lines 184-186
CallComposite ==
    /\ pc = "call_composite"
    /\ shap_interpretability_score' =
          interpretability_score(shap_sparsity, shap_stability, shap_fidelity_score)
    /\ lime_interpretability_score' =
          interpretability_score(lime_sparsity, lime_stability, lime_fidelity_score)
    /\ pc' = "returned_composite"
    /\ UNCHANGED << feature_names, total_features, shap_values, shap_vec_1, shap_vec_2,
                    exp1, exp2, lime_vec_1, lime_vec_2, shap_explained_features,
                    lime_explained_features, shap_sparsity, lime_sparsity,
                    shap_stability, lime_stability, model_preds, lime_preds,
                    shap_fidelity_score, lime_fidelity_score, conclusion, printed,
                    X_train, X_test, feature, i, lime_contributions,
                    shap_contributions, feature_values, origin >>

\* line 189
CallConclusion ==
    /\ pc = "call_conclusion"
    /\ conclusion' = conclusion_of(shap_interpretability_score, lime_interpretability_score)
    /\ pc' = "returned_conclusion"
    /\ UNCHANGED << feature_names, total_features, shap_values, shap_vec_1, shap_vec_2,
                    exp1, exp2, lime_vec_1, lime_vec_2, shap_explained_features,
                    lime_explained_features, shap_sparsity, lime_sparsity,
                    shap_stability, lime_stability, model_preds, lime_preds,
                    shap_fidelity_score, lime_fidelity_score,
                    shap_interpretability_score, lime_interpretability_score, printed,
                    X_train, X_test, feature, i, lime_contributions,
                    shap_contributions, feature_values, origin >>

NextFn ==
    \/ CallExplanationToVector
    \/ CallGetShapVector
    \/ CallCalculateSparsityScore
    \/ CallStability
    \/ CallFidelity
    \/ CallComposite
    \/ CallConclusion

SpecFn == InitFn /\ [][NextFn]_vars

-----------------------------------------------------------------------------
(* Which data rows the quantities describe: the split, the SHAP explainer's   *)
(* input, the dependence loop of lines 105-131 and the selection of the two   *)
(* metric instances.  A row is known by its number in the data set; every     *)
(* recorded contribution carries the row it was computed for.                 *)

\* train_test_split: two disjoint row sequences; rows are numbered in the order
\* the shuffle puts them
TrainRows == [k \in 1..(LoopInstances + ExtraRows) |-> k]

TestRows == [k \in 1..LoopInstances |-> LoopInstances + ExtraRows + k]

\* lines 112-116: the weight of the first entry whose token contains `name`
RECURSIVE FirstMatchWeight(_, _)
FirstMatchWeight(as_list, name) ==
    IF as_list = << >> THEN 0
    ELSE IF Contains(name, Head(as_list)[1]) THEN Head(as_list)[2]
    ELSE FirstMatchWeight(Tail(as_list), name)

InitDep ==
    /\ pc = "split"
    /\ feature_names = Columns
    /\ total_features = Len(Columns)
    /\ Unassigned

\* line 24
TrainTestSplit ==
    /\ pc = "split"
    /\ X_train' = TrainRows
    /\ X_test' = TestRows
    /\ pc' = "explain_shap"
    /\ UNCHANGED << feature_names, total_features, shap_values, metricVars, feature, i,
                    lime_contributions, shap_contributions, feature_values, origin >>

\* lines 66-67 and 88: shap_values and shap_vals_class1 hold one row per row of X_train
ExplainTrainingRows ==
    /\ pc = "explain_shap"
    /\ origin' = [origin EXCEPT !["shap_values"] = X_train]
    /\ pc' = "dependence_feature"
    /\ UNCHANGED << feature_names, total_features, shap_values, metricVars, X_train, X_test,
                    feature, i, lime_contributions, shap_contributions, feature_values >>

\* lines 105-108: the next of the three features, or the end of the outer loop
DependenceFeature ==
    /\ pc = "dependence_feature"
    /\ IF feature = Columns[Len(Columns)]
       THEN /\ pc' = "metric_instances"
            /\ UNCHANGED << feature, lime_contributions, shap_contributions, feature_values >>
       ELSE /\ feature' = IF feature = << >> THEN Columns[1]
                          ELSE Columns[ListIndex(Columns, feature) + 1]
            /\ lime_contributions' = << >>
            /\ shap_contributions' = << >>
            /\ feature_values' = << >>
            /\ pc' = "dependence_instance"
    /\ UNCHANGED << feature_names, total_features, shap_values, metricVars, X_train, X_test,
                    i, origin >>

\* lines 110-119: one pass of the inner loop
DependenceInstance ==
    /\ pc = "dependence_instance"
    /\ Len(lime_contributions) < LoopInstances
    /\ i' = Len(lime_contributions)
    /\ \E exp \in LimeExplanations(feature_names, total_features), shap_value \in {-1, 0, 1} :
         /\ lime_contributions' =
               Append(lime_contributions,
                      [row |-> X_test[i' + 1], val |-> FirstMatchWeight(exp.as_list, feature)])
         /\ shap_contributions' =
               Append(shap_contributions,
                      [row |-> origin["shap_values"][i' + 1], val |-> shap_value])
         /\ feature_values' = Append(feature_values, [row |-> X_test[i' + 1]])
    /\ pc' = "dependence_instance"
    /\ UNCHANGED << feature_names, total_features, shap_values, metricVars, X_train, X_test,
                    feature, origin >>

\* lines 121-131: the figure of one feature
SaveDependencePlot ==
    /\ pc = "dependence_instance"
    /\ Len(lime_contributions) = LoopInstances
    /\ pc' = "dependence_feature"
    /\ UNCHANGED << feature_names, total_features, shap_values, metricVars, depVars >>

\* lines 152-153, 157-158 and 178: the rows behind the metric block's inputs
MetricInstances ==
    /\ pc = "metric_instances"
    /\ origin' = [origin EXCEPT
                    !["shap_vec"] = << origin["shap_values"][1], origin["shap_values"][2] >>,
                    !["exp"] = << X_test[1], X_test[2] >>,
                    !["model_preds"] = SubSeq(X_test, 1, 2)]
    /\ pc' = "selected"
    /\ UNCHANGED << feature_names, total_features, shap_values, metricVars, X_train, X_test,
                    feature, i, lime_contributions, shap_contributions, feature_values >>

NextDep ==
    \/ TrainTestSplit
    \/ ExplainTrainingRows
    \/ DependenceFeature
    \/ DependenceInstance
    \/ SaveDependencePlot
    \/ MetricInstances

SpecDep == InitDep /\ [][NextDep]_vars

-----------------------------------------------------------------------------
(* Properties *)

Returned(f) == pc = "returned_" \o f

SetMin(S) == CHOOSE x \in S : \A y \in S : x <= y

SetMax(S) == CHOOSE x \in S : \A y \in S : x >= y

\* the entries of as_list whose token contains names[idx]
Matching(as_list, names, idx) ==
    { k \in 1..Len(as_list) : Contains(names[idx], as_list[k][1]) }

\* the entries of as_list whose token contains names[idx] and no earlier name
AssignedTo(as_list, names, idx) ==
    { k \in Matching(as_list, names, idx) :
        \A j \in 1..(idx - 1) : ~Contains(names[j], as_list[k][1]) }

\* C1 as stated: position idx of explanation_to_vector(E, F) is the absolute weight
\* of the FIRST entry of E whose token contains F[idx], and 0 if there is none.
C1_FirstMatchingEntry ==
    Returned("explanation_to_vector") =>
        \A idx \in 1..Len(feature_names) :
            LET M == Matching(exp1.as_list, feature_names, idx)
            IN  lime_vec_1.data[idx] =
                    IF M = {} THEN 0 ELSE Abs(exp1.as_list[SetMin(M)][2])

\* C1 amended: position idx of explanation_to_vector(E, F) is the absolute weight
\* of the LAST entry of E whose token contains F[idx] and contains no feature name
\* that stands before F[idx] in F, and 0 if there is no such entry.
C1_LastAssignedEntry ==
    Returned("explanation_to_vector") =>
        \A idx \in 1..Len(feature_names) :
            LET A == AssignedTo(exp1.as_list, feature_names, idx)
            IN  lime_vec_1.data[idx] =
                    IF A = {} THEN 0 ELSE Abs(exp1.as_list[SetMax(A)][2])

\* two entries of different absolute weight go to one position, and a token
\* contains a second feature name that it is not assigned to
C1_Witness ==
    /\ Returned("explanation_to_vector")
    /\ \E idx \in 1..Len(feature_names) :
         LET A == AssignedTo(exp1.as_list, feature_names, idx)
         IN  /\ Cardinality(A) >= 2
             /\ Abs(exp1.as_list[SetMin(A)][2]) # Abs(exp1.as_list[SetMax(A)][2])
    /\ \E idx \in 1..Len(feature_names) :
         Matching(exp1.as_list, feature_names, idx)
            # AssignedTo(exp1.as_list, feature_names, idx)

\* C2: the vector get_shap_vector yields for an instance whose SHAP values are
\* laid out features x classes has, as the one row handed to the stability
\* computation, exactly one entry per feature.
C2_OneEntryPerFeature ==
    Returned("get_shap_vector") =>
        /\ shap_vec_1.ndim = 1
        /\ Len(Reshape(shap_vec_1)) = total_features

\* C3: explanation_to_vector(E, F) is a vector of length |F| whose entries are
\* all >= 0, whatever E holds (nothing, unmatched tokens, negative weights).
C3_LengthAndNonNegative ==
    Returned("explanation_to_vector") =>
        /\ lime_vec_1.ndim = 1
        /\ lime_vec_1.shape = << Len(feature_names) >>
        /\ Len(lime_vec_1.data) = Len(feature_names)
        /\ \A idx \in 1..Len(feature_names) : lime_vec_1.data[idx] >= 0

\* a negative weight has been written, as its absolute value
C3_Witness ==
    /\ Returned("explanation_to_vector")
    /\ \E idx \in 1..Len(feature_names) :
         LET A == AssignedTo(exp1.as_list, feature_names, idx)
         IN  /\ A # {}
             /\ exp1.as_list[SetMax(A)][2] < 0
             /\ lime_vec_1.data[idx] > 0

IsZeroVector(vec) == \A k \in 1..Len(Reshape(vec)) : Reshape(vec)[k] = 0

\* C4 as stated: the stability score of any vector with itself is 1.0, the
\* all-zero vector included.
C4_SelfStabilityIsOne ==
    (Returned("stability") /\ shap_vec_1 = shap_vec_2) => shap_stability = Scale

\* C4 amended: the stability score of a vector with itself is 1.0 when the vector
\* has a non-zero entry, and 0.0 when it is the all-zero vector.
C4_SelfStabilityUnlessZero ==
    (Returned("stability") /\ shap_vec_1 = shap_vec_2) =>
        shap_stability = IF IsZeroVector(shap_vec_1) THEN 0 ELSE Scale

C4_Witness ==
    /\ Returned("stability")
    /\ shap_vec_1 = shap_vec_2
    /\ ~IsZeroVector(shap_vec_1)
    /\ Len(shap_vec_1.data) > 1
    /\ shap_stability = Scale

\* the technique a verdict text declares more interpretable
Declared(text) == IF text = MoreInterpretable THEN "SHAP" ELSE "neither"

\* C5 as stated: the verdict declares the technique with the higher composite
\* score more interpretable, SHAP when shap > lime and LIME when shap < lime.
C5_HigherScoreDeclared ==
    Returned("conclusion") =>
        /\ shap_interpretability_score > lime_interpretability_score
              => Declared(conclusion) = "SHAP"
        /\ shap_interpretability_score < lime_interpretability_score
              => Declared(conclusion) = "LIME"

\* C5 amended: the verdict says SHAP is more interpretable exactly when the SHAP
\* composite is strictly higher; otherwise (lower or equal) it says that SHAP is
\* not more interpretable than LIME.
C5_ShapDeclaredIffHigher ==
    Returned("conclusion") =>
        /\ conclusion = MoreInterpretable
              <=> shap_interpretability_score > lime_interpretability_score
        /\ conclusion = NotMoreInterpretable
              <=> shap_interpretability_score <= lime_interpretability_score

\* composites 0.7 and 0.6
C5_Witness ==
    /\ Returned("conclusion")
    /\ shap_interpretability_score = 7 * Scale
    /\ lime_interpretability_score = 6 * Scale
    /\ conclusion = MoreInterpretable

SquaredError(y_true, y_pred) ==
    SumSeq([k \in 1..Len(y_true) |-> (y_true[k] - y_pred[k]) * (y_true[k] - y_pred[k])])

\* C6: fidelity is 1 - MSE(model, technique) (here to the resolution 1/Scale);
\* the SHAP fidelity is exactly 1.0 whatever the model's probabilities are; the
\* LIME fidelity is at most 1.0, and is 1.0 exactly when the surrogate's
\* predictions equal the model's probabilities.
C6_Fidelity ==
    Returned("fidelity") =>
        LET mse == Scale - lime_fidelity_score
            sse == SquaredError(model_preds, lime_preds)
            n   == Len(model_preds)
        IN  /\ shap_fidelity_score = Scale
            /\ lime_fidelity_score <= Scale
            /\ lime_fidelity_score = Scale <=> lime_preds = model_preds
            /\ mse * n * Scale <= sse
            /\ sse < (mse + 1) * n * Scale

C6_Witness ==
    /\ Returned("fidelity")
    /\ lime_preds # model_preds
    /\ model_preds[1] # model_preds[2]
    /\ lime_fidelity_score < Scale
    /\ shap_fidelity_score = Scale

\* C7: calculate_sparsity_score is 1 - used/total (here to the resolution
\* 1/Scale); for 0 <= used <= total it lies in [0, 1], is 0 at used = total and
\* 1 at used = 0; total 3 and used 2 give 1/3.
C7_Sparsity ==
    Returned("calculate_sparsity_score") =>
        LET used  == Len(lime_explained_features)
            total == total_features
            ratio == Scale - lime_sparsity
        IN  /\ total * ratio <= used * Scale
            /\ used * Scale < total * ratio + total
            /\ used <= total =>
                  /\ 0 <= lime_sparsity /\ lime_sparsity <= Scale
                  /\ used = total => lime_sparsity = 0
                  /\ used = 0 => lime_sparsity = Scale
            /\ (total = 3 /\ used = 2) => Abs(3 * lime_sparsity - Scale) < 3

C7_Witness ==
    /\ Returned("calculate_sparsity_score")
    /\ total_features = 3
    /\ Len(lime_explained_features) = 2
    /\ lime_sparsity > 0 /\ lime_sparsity < Scale

\* C8: each technique's composite is 0.3 * sparsity + 0.3 * stability +
\* 0.4 * fidelity of that technique's own scores (composites are in tenths).
C8_Composite ==
    Returned("composite") =>
        /\ shap_interpretability_score =
              3 * shap_sparsity + 3 * shap_stability + 4 * shap_fidelity_score
        /\ lime_interpretability_score =
              3 * lime_sparsity + 3 * lime_stability + 4 * lime_fidelity_score

\* the two techniques differ in every score
C8_Witness ==
    /\ Returned("composite")
    /\ shap_sparsity # lime_sparsity
    /\ shap_stability # lime_stability
    /\ shap_fidelity_score # lime_fidelity_score
    /\ shap_sparsity # shap_fidelity_score
    /\ shap_interpretability_score # lime_interpretability_score

\* the two LIME explanations of the metric block have been obtained
Explained == pc \notin { "explain_shap", "shap_vectors", "lime_explain" }

EmptyExplanation == exp1.as_list = << >> \/ exp2.as_list = << >>

\* C9 as stated: with an empty explanation list for a metric instance the run
\* fails: it never gets as far as a score or a verdict.
C9_EmptyExplanationFails ==
    (Explained /\ EmptyExplanation) =>
        /\ pc \in { "lime_vectors", "explained_features", "sparsity", "failed" }
        /\ conclusion = ""
        /\ printed = << >>

\* C9 amended: an empty explanation list does not stop the run (with two or more
\* feature columns nothing does): it is mapped to the all-zero vector, the LIME
\* stability score is 0, the LIME sparsity score is 1 when the empty list is the
\* first instance's, and the verdict is computed and printed.
C9_EmptyExplanationScored ==
    /\ (Explained /\ EmptyExplanation /\ total_features >= 2) => pc # "failed"
    /\ (pc = "done" /\ EmptyExplanation) =>
          /\ lime_stability = 0
          /\ conclusion \in { MoreInterpretable, NotMoreInterpretable }
          /\ Len(printed) = 9
          /\ printed[2] = << "LIME Sparsity Score", lime_sparsity >>
          /\ printed[4] = << "LIME Stability Score", 0 >>
          /\ printed[9] = << "Conclusion:", conclusion >>
    /\ (pc = "done" /\ exp1.as_list = << >>) =>
          /\ lime_vec_1 = Zeros(total_features)
          /\ lime_sparsity = Scale
    /\ (pc = "done" /\ exp2.as_list = << >>) => lime_vec_2 = Zeros(total_features)

C9_Witness ==
    /\ pc = "done"
    /\ exp1.as_list = << >>
    /\ exp2.as_list # << >>
    /\ printed # << >>

\* C10: quantities paired under one index describe one data row: the k-th
\* feature value, SHAP contribution and LIME contribution of the dependence
\* loop, and the two SHAP vectors, LIME explanations and model probabilities
\* of the metric block.
C10_SameInstance ==
    /\ \A k \in 1..Len(lime_contributions) :
          /\ feature_values[k].row = lime_contributions[k].row
          /\ shap_contributions[k].row = lime_contributions[k].row
    /\ pc = "selected" =>
          /\ origin["exp"] = origin["model_preds"]
          /\ origin["shap_vec"] = origin["exp"]

=============================================================================
